---------------------------- MODULE Spec2Model ----------------------------
(***************************************************************************)
(* Model of cli_sql_etl.py: the extract / transform / load / report /      *)
(* validate commands and the staged CSV files they communicate through.    *)
(*                                                                         *)
(* A staged file is the text pandas writes: a sequence of characters       *)
(* (one-character strings).  read_csv tokenises that text and infers a     *)
(* dtype per column, to_csv formats the typed values back, so that a       *)
(* parse/format round trip is computed and not assumed.                    *)
(***************************************************************************)
EXTENDS Integers, Sequences, FiniteSets, TLC

(***************************************************************************)
(* Text                                                                    *)
(***************************************************************************)
NL == "\n"
COMMA == ","
QUOTE == "\""
DOT == "."

Digit == {"0", "1", "2", "3", "4", "5", "6", "7", "8", "9"}

DigitVal(c) ==
  CASE c = "0" -> 0 [] c = "1" -> 1 [] c = "2" -> 2 [] c = "3" -> 3
    [] c = "4" -> 4 [] c = "5" -> 5 [] c = "6" -> 6 [] c = "7" -> 7
    [] c = "8" -> 8 [] c = "9" -> 9

DigitChr(d) ==
  CASE d = 0 -> "0" [] d = 1 -> "1" [] d = 2 -> "2" [] d = 3 -> "3"
    [] d = 4 -> "4" [] d = 5 -> "5" [] d = 6 -> "6" [] d = 7 -> "7"
    [] d = 8 -> "8" [] d = 9 -> "9"

Front(s) == SubSeq(s, 1, Len(s) - 1)
Last(s) == s[Len(s)]

RECURSIVE ParseNat(_)
ParseNat(s) == IF s = <<>> THEN 0 ELSE ParseNat(Front(s)) * 10 + DigitVal(Last(s))

RECURSIVE FormatNat(_)
FormatNat(n) ==
  IF n < 10 THEN <<DigitChr(n)>> ELSE FormatNat(n \div 10) \o <<DigitChr(n % 10)>>

AllDigits(s) == \A i \in 1..Len(s) : s[i] \in Digit

\* Position of the first sep in s, or 0.
RECURSIVE IndexOf(_, _, _)
IndexOf(s, sep, i) ==
  IF i > Len(s) THEN 0 ELSE IF s[i] = sep THEN i ELSE IndexOf(s, sep, i + 1)

\* s split at every sep; a text ending in sep has an empty last piece.
RECURSIVE Split(_, _)
Split(s, sep) ==
  LET i == IndexOf(s, sep, 1)
  IN  IF i = 0 THEN <<s>>
      ELSE <<SubSeq(s, 1, i - 1)>> \o Split(SubSeq(s, i + 1, Len(s)), sep)

RECURSIVE Join(_, _)
Join(parts, sep) ==
  IF parts = <<>> THEN <<>>
  ELSE IF Len(parts) = 1 THEN parts[1]
  ELSE parts[1] \o <<sep>> \o Join(Tail(parts), sep)

RECURSIVE Concat(_)
Concat(parts) == IF parts = <<>> THEN <<>> ELSE parts[1] \o Concat(Tail(parts))

RECURSIVE SelectIdx(_, _, _)
\* The indices i of 1..n, ascending, with keep[i].
SelectIdx(keep, i, n) ==
  IF i > n THEN <<>>
  ELSE (IF keep[i] THEN <<i>> ELSE <<>>) \o SelectIdx(keep, i + 1, n)

Range(s) == {s[i] : i \in 1..Len(s)}

(***************************************************************************)
(* Names the program and its data use                                      *)
(***************************************************************************)
c_id == <<"i", "d">>
c_department == <<"d", "e", "p", "a", "r", "t", "m", "e", "n", "t">>
c_salary == <<"s", "a", "l", "a", "r", "y">>
c_ghost == <<"g", "h", "o", "s", "t">>
Eng == <<"E", "n", "g">>
Ops == <<"O", "p", "s">>

EXTRACTED == "extracted_sql.csv"
TRANSFORMED == "transformed_sql.csv"
LOADED == "loaded_sql.csv"
Paths == {EXTRACTED, TRANSFORMED, LOADED}

(***************************************************************************)
(* Values of a DataFrame cell                                              *)
(***************************************************************************)
VStr(s) == [k |-> "str", s |-> s, n |-> 0, f |-> <<>>]
VInt(n) == [k |-> "int", s |-> <<>>, n |-> n, f |-> <<>>]
\* A float64 n.f, f its fraction digits without trailing zeros.
VFloat(n, f) == [k |-> "float", s |-> <<>>, n |-> n, f |-> f]
NaN == [k |-> "nan", s |-> <<>>, n |-> 0, f |-> <<>>]

\* A DataFrame: column names, rows of values, and the index labels of the rows
\* (to_csv is called with index=False, so the index never reaches a file).
DataFrame(cols, rows, index) == [cols |-> cols, rows |-> rows, index |-> index]
EmptyFrame == DataFrame(<<>>, <<>>, <<>>)

(***************************************************************************)
(* pandas.DataFrame.to_csv(path, index=False)                              *)
(***************************************************************************)
RECURSIVE StripZeros(_)
StripZeros(s) ==
  IF s # <<>> /\ Last(s) = "0" THEN StripZeros(Front(s)) ELSE s

FormatValue(v) ==
  CASE v.k = "str" -> v.s
    [] v.k = "int" -> FormatNat(v.n)
    [] v.k = "float" -> FormatNat(v.n) \o <<DOT>> \o (IF v.f = <<>> THEN <<"0">> ELSE v.f)
    [] v.k = "nan" -> <<>>

\* csv.writer quotes the one empty field of a one-field row.
CsvLine(fields) ==
  IF Len(fields) = 1 /\ fields[1] = <<>> THEN <<QUOTE, QUOTE>> ELSE Join(fields, COMMA)

to_csv_text(df) ==
  Concat(<<CsvLine(df.cols) \o <<NL>>>> \o
         [i \in 1..Len(df.rows) |->
            CsvLine([j \in 1..Len(df.cols) |-> FormatValue(df.rows[i][j])]) \o <<NL>>])

(***************************************************************************)
(* pandas.read_csv(path)                                                   *)
(***************************************************************************)
\* Texts read_csv takes for a missing value (a part of pandas' default list).
NaValues ==
  { <<>>, <<"N", "A">>, <<"N", "a", "N">>, <<"n", "a", "n">>,
    <<"n", "u", "l", "l">>, <<"N", "U", "L", "L">>, <<"N", "/", "A">> }

IsIntText(t) == t # <<>> /\ AllDigits(t)

IsDecText(t) ==
  LET i == IndexOf(t, DOT, 1)
  IN  /\ i > 0
      /\ Len(t) > 1
      /\ AllDigits(SubSeq(t, 1, i - 1))
      /\ AllDigits(SubSeq(t, i + 1, Len(t)))

ParseFloat(t) ==
  LET i == IndexOf(t, DOT, 1)
  IN  IF i = 0 THEN VFloat(ParseNat(t), <<>>)
      ELSE VFloat(ParseNat(SubSeq(t, 1, i - 1)), StripZeros(SubSeq(t, i + 1, Len(t))))

Unquote(f) ==
  IF Len(f) >= 2 /\ f[1] = QUOTE /\ Last(f) = QUOTE THEN SubSeq(f, 2, Len(f) - 1) ELSE f

Fields(line) == LET p == Split(line, COMMA) IN [i \in 1..Len(p) |-> Unquote(p[i])]

\* skip_blank_lines=True
NotBlank(line) == line # <<>>
NonBlankLines(text) == SelectSeq(Split(text, NL), NotBlank)

\* The dtype read_csv infers for a column from its texts.
InferDtype(texts) ==
  LET present == {i \in 1..Len(texts) : texts[i] \notin NaValues}
  IN  IF Len(texts) = 0 THEN "object"
      ELSE IF \A i \in present : IsIntText(texts[i])
           THEN (IF present = 1..Len(texts) THEN "int64" ELSE "float64")
      ELSE IF \A i \in present : IsIntText(texts[i]) \/ IsDecText(texts[i])
           THEN "float64"
      ELSE "object"

ParseValue(t, dtype) ==
  IF t \in NaValues THEN NaN
  ELSE CASE dtype = "int64" -> VInt(ParseNat(t))
         [] dtype = "float64" -> ParseFloat(t)
         [] dtype = "object" -> VStr(t)

ParseColumn(texts, dtype) == [i \in 1..Len(texts) |-> ParseValue(texts[i], dtype)]

\* The frame of the parsed columns, indexed 1..nrows.
FrameOfColumns(cols, columns, nrows) ==
  DataFrame(cols,
            [i \in 1..nrows |-> [j \in 1..Len(cols) |-> columns[j][i]]],
            [i \in 1..nrows |-> i])

\* A short row is padded with missing values; a long one is a tokenising error.
ParseRows(cols, raw) ==
  IF \E i \in 1..Len(raw) : Len(raw[i]) > Len(cols)
  THEN [err |-> "ParserError", df |-> EmptyFrame]
  ELSE [err |-> "",
        df |-> FrameOfColumns(cols,
                 [j \in 1..Len(cols) |->
                    LET texts == [i \in 1..Len(raw) |->
                                    IF j <= Len(raw[i]) THEN raw[i][j] ELSE <<>>]
                    IN  ParseColumn(texts, InferDtype(texts))],
                 Len(raw))]

\* The first line that is not blank is the header.
ParseLines(lines) ==
  IF lines = <<>> THEN [err |-> "EmptyDataError", df |-> EmptyFrame]
  ELSE ParseRows(Fields(lines[1]), [i \in 1..(Len(lines) - 1) |-> Fields(lines[i + 1])])

read_csv_text(text) == ParseLines(NonBlankLines(text))

(***************************************************************************)
(* DataFrame operations the commands use                                   *)
(***************************************************************************)
\* The frame with only the columns at positions js (ascending), rows kept.
TakeColumns(df, js) ==
  DataFrame([c \in 1..Len(js) |-> df.cols[js[c]]],
            [i \in 1..Len(df.rows) |-> [c \in 1..Len(js) |-> df.rows[i][js[c]]]],
            df.index)

\* The frame with only the rows at positions is (ascending), labels kept.
TakeRows(df, is) ==
  DataFrame(df.cols,
            [r \in 1..Len(is) |-> df.rows[is[r]]],
            [r \in 1..Len(is) |-> df.index[is[r]]])

\* Variant: a name that is no column makes the whole drop a no-op.
drop_all_or_nothing(df, names) ==
  IF Range(names) \subseteq Range(df.cols)
  THEN TakeColumns(df, SelectIdx([j \in 1..Len(df.cols) |-> df.cols[j] \notin Range(names)],
                                 1, Len(df.cols)))
  ELSE df

\* df.drop(columns=names, errors='ignore')
drop(df, names) ==
  TakeColumns(df, SelectIdx([j \in 1..Len(df.cols) |-> df.cols[j] \notin Range(names)],
                            1, Len(df.cols)))

\* df.dropna()
dropna(df) ==
  TakeRows(df, SelectIdx([i \in 1..Len(df.rows) |->
                            \A j \in 1..Len(df.cols) : df.rows[i][j] # NaN],
                         1, Len(df.rows)))

ColumnPos(df, name) == IndexOf(df.cols, name, 1)

\* df[df[name] == value]: value is a str, and equals no int, float or NaN.
filter_eq(df, name, value) ==
  TakeRows(df, SelectIdx([i \in 1..Len(df.rows) |->
                            df.rows[i][ColumnPos(df, name)] = VStr(value)],
                         1, Len(df.rows)))

\* df.isnull().values.any()
any_null(df) == \E i \in 1..Len(df.rows) : \E j \in 1..Len(df.cols) : df.rows[i][j] = NaN

\* df.duplicated(): a row is marked when an earlier row holds the same values.
duplicated(df) == [i \in 1..Len(df.rows) |-> \E h \in 1..(i - 1) : df.rows[h] = df.rows[i]]

any_duplicated(df) == \E i \in 1..Len(df.rows) : duplicated(df)[i]

(***************************************************************************)
(* Files                                                                   *)
(***************************************************************************)
Missing == [exists |-> FALSE, text |-> <<>>]
File(text) == [exists |-> TRUE, text |-> text]

\* Variant: a missing file reads as an empty frame.
read_csv_missing_as_empty(f) ==
  IF ~f.exists THEN [err |-> "", df |-> EmptyFrame] ELSE read_csv_text(f.text)

\* pd.read_csv(path)
read_csv(f) ==
  IF ~f.exists THEN [err |-> "FileNotFoundError", df |-> EmptyFrame]
  ELSE read_csv_text(f.text)

\* Variant: an existing file is opened without being cut.
open_keep(f) == IF f.exists THEN f ELSE File(<<>>)

\* open(path, 'w'): the file is created, or cut to no bytes.
open_w(f) == File(<<>>)

\* write(text) at offset 0 through a handle of open_w, then close: the bytes
\* under the text are replaced, and bytes beyond it stay.  (The files here are
\* far below the 8 KiB buffer, so a to_csv is one write, flushed by the close.)
write_at0(f, text) == File(text \o SubSeq(f.text, Len(text) + 1, Len(f.text)))

\* Variant: the file is opened for append.
to_csv_append(fs, path, df, writable) ==
  IF writable
  THEN [err |-> "", files |-> [fs EXCEPT ![path] = File(fs[path].text \o to_csv_text(df))]]
  ELSE [err |-> "PermissionError", files |-> fs]

\* df.to_csv(path, index=False): nothing is touched when the path cannot be opened.
to_csv(fs, path, df, writable) ==
  IF writable
  THEN [err |-> "", files |-> [fs EXCEPT ![path] = write_at0(open_w(fs[path]), to_csv_text(df))]]
  ELSE [err |-> "PermissionError", files |-> fs]

\* A click option that may be absent (None).
None == [given |-> FALSE, value |-> <<>>]
Some(v) == [given |-> TRUE, value |-> v]
\* Python truthiness of an optional string: None and '' are false.
Truthy(opt) == opt.given /\ opt.value # <<>>

(***************************************************************************)
(* The database                                                            *)
(***************************************************************************)
\* employees: id int, department varchar, salary numeric NULL
employees ==
  DataFrame(<<c_id, c_department, c_salary>>,
            << <<VInt(1), VStr(Eng), VFloat(100, <<>>)>>,
               <<VInt(2), VStr(Eng), NaN>>,
               <<VInt(2), VStr(Eng), NaN>>,
               <<VInt(3), VStr(Ops), NaN>> >>,
            <<1, 2, 3, 4>>)

\* badges: id varchar, department varchar
badges ==
  DataFrame(<<c_id, c_department>>,
            << <<VStr(<<"0", "0", "7">>), VStr(Eng)>>,
               <<VStr(<<"x", "1">>), VStr(Ops)>> >>,
            <<1, 2>>)

Database == [employees |-> employees, badges |-> badges]
TableNames == {"employees", "badges", "nosuch"}

\* pd.read_sql("SELECT * FROM <table>", conn)
read_sql(table) ==
  IF table \in DOMAIN Database THEN [err |-> "", df |-> Database[table]]
  ELSE [err |-> "DatabaseError", df |-> EmptyFrame]

(***************************************************************************)
(* The commands.  Each yields what the process leaves behind: the files,   *)
(* the error it died of ("" when it returned), what it echoed, the state   *)
(* of its database connection, and the frames it read and wrote.           *)
(***************************************************************************)
Outcome(fs, err, echo, cn, dfIn, dfOut) ==
  [files |-> fs, err |-> err, echo |-> echo, conn |-> cn, dfIn |-> dfIn, dfOut |-> dfOut]

extract(fs, table, connectable, writable) ==
  LET e0 == <<"Extracting data from SQL table">>
      q == read_sql(table)
      w == to_csv(fs, EXTRACTED, q.df, writable)
  IN  IF ~connectable THEN Outcome(fs, "ConnectionError", e0, "none", EmptyFrame, EmptyFrame)
      ELSE IF q.err # "" THEN Outcome(fs, q.err, e0, "open", EmptyFrame, EmptyFrame)
      ELSE IF w.err # "" THEN Outcome(fs, w.err, e0, "closed", q.df, q.df)
      ELSE Outcome(w.files, "", e0 \o <<"Extracted rows", "Saved to extracted_sql.csv">>,
                   "closed", q.df, q.df)

\* Variant: rows with a null are dropped before the columns are.
transform_frame_nulls_first(df, drop_null, drop_cols, filter_dept) ==
  LET d1 == IF drop_null THEN dropna(df) ELSE df
      d2 == IF drop_cols # <<>> THEN drop(d1, drop_cols) ELSE d1
  IN  IF ~Truthy(filter_dept) THEN [err |-> "", df |-> d2, echo |-> <<>>]
      ELSE IF ColumnPos(d2, c_department) = 0 THEN [err |-> "KeyError", df |-> d2, echo |-> <<>>]
      ELSE [err |-> "", df |-> filter_eq(d2, c_department, filter_dept.value), echo |-> <<>>]

\* Lines 51-61: the frame after the filters, and what was echoed on the way.
transform_frame(df, drop_null, drop_cols, filter_dept) ==
  LET d1 == IF drop_cols # <<>> THEN drop(df, drop_cols) ELSE df
      e1 == IF drop_cols # <<>> THEN <<"Dropped columns">> ELSE <<>>
      d2 == IF drop_null THEN dropna(d1) ELSE d1
      e2 == e1 \o (IF drop_null THEN <<"Dropped nulls">> ELSE <<>>)
  IN  IF ~Truthy(filter_dept) THEN [err |-> "", df |-> d2, echo |-> e2]
      ELSE IF ColumnPos(d2, c_department) = 0 THEN [err |-> "KeyError", df |-> d2, echo |-> e2]
      ELSE [err |-> "", df |-> filter_eq(d2, c_department, filter_dept.value),
            echo |-> e2 \o <<"Filtered by department">>]

transform(fs, input, drop_null, drop_cols, filter_dept, writable) ==
  LET e0 == <<"Transforming">>
      r == read_csv(fs[input])
      t == transform_frame(r.df, drop_null, drop_cols, filter_dept)
      w == to_csv(fs, TRANSFORMED, t.df, writable)
  IN  IF r.err # "" THEN Outcome(fs, r.err, e0, "none", EmptyFrame, EmptyFrame)
      ELSE IF t.err # "" THEN Outcome(fs, t.err, e0 \o t.echo, "none", r.df, t.df)
      ELSE IF w.err # "" THEN Outcome(fs, w.err, e0 \o t.echo, "none", r.df, t.df)
      ELSE Outcome(w.files, "", e0 \o t.echo \o <<"Saved to transformed_sql.csv">>,
                   "none", r.df, t.df)

load(fs, target, writable) ==
  LET e0 == <<"Loading data">>
      r == read_csv(fs[TRANSFORMED])
      w == to_csv(fs, target, r.df, writable)
  IN  IF r.err # "" THEN Outcome(fs, r.err, e0, "none", EmptyFrame, EmptyFrame)
      ELSE IF w.err # "" THEN Outcome(fs, w.err, e0, "none", r.df, r.df)
      ELSE Outcome(w.files, "", e0 \o <<"Load complete">>, "none", r.df, r.df)

\* df.describe(include='all') is echoed; its figures are not modelled.
report(fs, input) ==
  LET e0 == <<"Generating report">>
      r == read_csv(fs[input])
  IN  IF r.err # "" THEN Outcome(fs, r.err, e0, "none", EmptyFrame, EmptyFrame)
      ELSE Outcome(fs, "", e0 \o <<"describe">>, "none", r.df, r.df)

\* Variant: the duplicate check is an elif of the null check.
issues_elif(df) ==
  IF any_null(df) THEN <<"Null values found">>
  ELSE IF any_duplicated(df) THEN <<"Duplicate rows found">> ELSE <<>>

\* Lines 93-97: the list of issues.
issues(df) ==
  (IF any_null(df) THEN <<"Null values found">> ELSE <<>>) \o
  (IF any_duplicated(df) THEN <<"Duplicate rows found">> ELSE <<>>)

validate(fs, input) ==
  LET e0 == <<"Validating">>
      r == read_csv(fs[input])
  IN  IF r.err # "" THEN Outcome(fs, r.err, e0, "none", EmptyFrame, EmptyFrame)
      ELSE IF issues(r.df) # <<>> THEN Outcome(fs, "", e0 \o issues(r.df), "none", r.df, r.df)
      ELSE Outcome(fs, "", e0 \o <<"Data passed validation">>, "none", r.df, r.df)

(***************************************************************************)
(* State                                                                   *)
(***************************************************************************)
VARIABLES
  files,   \* path -> the file there (Missing when there is none)
  conn,    \* the database connection of the last process: none, open, closed
  last,    \* the last command: its arguments, the files before it, its outcome
  ncmd,    \* commands run so far
  runs,    \* the transform runs that wrote their output, oldest first
  pc,      \* concurrent transform processes: where each is
  buf,     \* concurrent transform processes: the text each is to write
  log      \* concurrent transform processes: their opens and writes, in order

vars == <<files, conn, last, ncmd, runs, pc, buf, log>>
seqVars == <<conn, last, ncmd, runs>>
concVars == <<pc, buf, log>>

\* The processes of the concurrent specification.
Procs == {"p1", "p2"}

\* Commands in one run of the model.
MaxCmds == 2

\* --drop-cols, as given on the command line.
DropCols == { <<>>, <<c_salary, c_ghost>>, <<c_department>> }

\* --filter-dept, as given on the command line.
FilterDept == {None, Some(<<>>), Some(Eng)}

Record(cmd, path, drop_null, drop_cols, filter_dept, before, o) ==
  [cmd |-> cmd, path |-> path, drop_null |-> drop_null, drop_cols |-> drop_cols,
   filter_dept |-> filter_dept, before |-> before,
   err |-> o.err, echo |-> o.echo, dfIn |-> o.dfIn, dfOut |-> o.dfOut]

\* What an earlier extract may have left in extracted_sql.csv.
Extracts == {Missing} \cup {File(to_csv_text(Database[t])) : t \in DOMAIN Database}

Init ==
  /\ files \in {[p \in Paths |-> IF p = EXTRACTED THEN x ELSE Missing] : x \in Extracts}
  /\ conn = "none"
  /\ last = Record("", "", FALSE, <<>>, None, files,
                   Outcome(files, "", <<>>, "none", EmptyFrame, EmptyFrame))
  /\ ncmd = 0
  /\ runs = <<>>
  /\ pc = [p \in Procs |-> "idle"]
  /\ buf = [p \in Procs |-> <<>>]
  /\ log = <<>>

Run(cmd, path, drop_null, drop_cols, filter_dept, o) ==
  /\ ncmd < MaxCmds
  /\ ncmd' = ncmd + 1
  /\ files' = o.files
  /\ conn' = o.conn
  /\ last' = Record(cmd, path, drop_null, drop_cols, filter_dept, files, o)
  /\ runs' = IF cmd = "transform" /\ o.err = ""
             THEN Append(runs, [input |-> files[path].text, drop_null |-> drop_null,
                                drop_cols |-> drop_cols, filter_dept |-> filter_dept,
                                prior |-> files[TRANSFORMED],
                                output |-> o.files[TRANSFORMED].text])
             ELSE runs
  /\ UNCHANGED concVars

Extract ==
  \E table \in TableNames, connectable \in BOOLEAN, writable \in BOOLEAN :
    Run("extract", table, FALSE, <<>>, None, extract(files, table, connectable, writable))

\* The working directory is taken to be writable when transform runs; extract
\* and load are also run against one that is not.
Transform ==
  \E input \in Paths, drop_null \in BOOLEAN, drop_cols \in DropCols,
     filter_dept \in FilterDept :
    Run("transform", input, drop_null, drop_cols, filter_dept,
        transform(files, input, drop_null, drop_cols, filter_dept, TRUE))

Load ==
  \E target \in Paths, writable \in BOOLEAN :
    Run("load", target, FALSE, <<>>, None, load(files, target, writable))

Report ==
  \E input \in Paths : Run("report", input, FALSE, <<>>, None, report(files, input))

Validate ==
  \E input \in Paths : Run("validate", input, FALSE, <<>>, None, validate(files, input))

Next == Extract \/ Transform \/ Load \/ Report \/ Validate

Spec == Init /\ [][Next]_vars

(***************************************************************************)
(* Two transform processes started together on the default input.  A       *)
(* process reads and filters (lines 49-61), then opens transformed_sql.csv *)
(* for writing, then writes its text and closes (line 63).  Nothing orders *)
(* the steps of one process against those of the other.                    *)
(***************************************************************************)
InitC ==
  /\ files \in {[p \in Paths |-> IF p = EXTRACTED THEN x ELSE Missing] :
                  x \in Extracts \ {Missing}}
  /\ conn = "none"
  /\ last = Record("", "", FALSE, <<>>, None, files,
                   Outcome(files, "", <<>>, "none", EmptyFrame, EmptyFrame))
  /\ ncmd = 0
  /\ runs = <<>>
  /\ pc = [p \in Procs |-> "start"]
  /\ buf = [p \in Procs |-> <<>>]
  /\ log = <<>>

CRead(p) ==
  /\ pc[p] = "start"
  /\ \E drop_null \in BOOLEAN, drop_cols \in DropCols, filter_dept \in FilterDept :
       LET r == read_csv(files[EXTRACTED])
           t == transform_frame(r.df, drop_null, drop_cols, filter_dept)
       IN  IF r.err # "" \/ t.err # ""
           THEN pc' = [pc EXCEPT ![p] = "failed"] /\ UNCHANGED buf
           ELSE /\ pc' = [pc EXCEPT ![p] = "filtered"]
                /\ buf' = [buf EXCEPT ![p] = to_csv_text(t.df)]
  /\ UNCHANGED <<files, log>>
  /\ UNCHANGED seqVars

COpen(p) ==
  /\ pc[p] = "filtered"
  /\ files' = [files EXCEPT ![TRANSFORMED] = open_w(files[TRANSFORMED])]
  /\ pc' = [pc EXCEPT ![p] = "opened"]
  /\ log' = Append(log, [p |-> p, op |-> "open"])
  /\ UNCHANGED buf
  /\ UNCHANGED seqVars

CWrite(p) ==
  /\ pc[p] = "opened"
  /\ files' = [files EXCEPT ![TRANSFORMED] = write_at0(files[TRANSFORMED], buf[p])]
  /\ pc' = [pc EXCEPT ![p] = "done"]
  /\ log' = Append(log, [p |-> p, op |-> "write"])
  /\ UNCHANGED buf
  /\ UNCHANGED seqVars

NextC == \E p \in Procs : CRead(p) \/ COpen(p) \/ CWrite(p)

SpecConc == InitC /\ [][NextC]_vars

(***************************************************************************)
(* Properties                                                              *)
(***************************************************************************)
\* The column names in the header line of a file's text.
ColumnSet(f) ==
  LET first == Split(f.text, NL)[1]
  IN  IF first = <<>> THEN {} ELSE Range(Fields(first))

\* The records of a file's text, each the texts of its cells, header left out.
RecordTexts(f) ==
  LET lines == NonBlankLines(f.text)
  IN  [i \in 1..(Len(lines) - 1) |-> Fields(lines[i + 1])]

HeaderTexts(f) == Fields(NonBlankLines(f.text)[1])

RECURSIVE IsSubsequence(_, _)
\* a is b with some elements left out.
IsSubsequence(a, b) ==
  IF a = <<>> THEN TRUE
  ELSE IF b = <<>> THEN FALSE
  ELSE IF a[1] = b[1] THEN IsSubsequence(Tail(a), Tail(b))
  ELSE IsSubsequence(a, Tail(b))

TransformDone == last.cmd = "transform" /\ last.err = ""
InputFile == last.before[last.path]

\* C1: after a transform that completes, the columns of transformed_sql.csv are
\* the input's columns minus the --drop-cols names among them; and a transform
\* whose input parses and that applies no department filter completes, whatever
\* names --drop-cols gives.
C1_ColumnsMinusDropped ==
  /\ TransformDone =>
       ColumnSet(files[TRANSFORMED]) = ColumnSet(InputFile) \ Range(last.drop_cols)
  /\ (last.cmd = "transform" /\ read_csv(InputFile).err = "" /\ ~Truthy(last.filter_dept))
       => last.err = ""

\* A transform completed that was told to drop salary, a column of its input,
\* and ghost, which is none.
C1_Witness ==
  /\ TransformDone
  /\ last.drop_cols = <<c_salary, c_ghost>>
  /\ c_salary \in ColumnSet(InputFile)
  /\ c_ghost \notin ColumnSet(InputFile)
  /\ c_salary \notin ColumnSet(files[TRANSFORMED])

\* C2: a transform given --filter-dept whose dataset has no department column
\* after the column drop fails with KeyError and leaves every file as it was.
C2_FilterDeptWithoutColumnFails ==
  (/\ last.cmd = "transform"
   /\ last.filter_dept.given
   /\ read_csv(InputFile).err = ""
   /\ c_department \notin (ColumnSet(InputFile) \ Range(last.drop_cols)))
    => (last.err = "KeyError" /\ files = last.before)

\* C2, for a value that is not empty: the transform fails with KeyError and
\* leaves every file as it was.
C2_NonEmptyValueWithoutColumnFails ==
  (/\ last.cmd = "transform"
   /\ Truthy(last.filter_dept)
   /\ read_csv(InputFile).err = ""
   /\ c_department \notin (ColumnSet(InputFile) \ Range(last.drop_cols)))
    => (last.err = "KeyError" /\ files = last.before)

\* C3: after a load that completes, the target holds the text that
\* transformed_sql.csv held.
C3_LoadCopiesVerbatim ==
  (last.cmd = "load" /\ last.err = "") =>
    files[last.path].text = last.before[TRANSFORMED].text

HasNull(df) == \E i \in 1..Len(df.rows) : NaN \in Range(df.rows[i])
HasDuplicate(df) ==
  \E i, j \in 1..Len(df.rows) : i # j /\ df.rows[i] = df.rows[j]

\* C4: validate reports the null message iff the dataset holds a null, the
\* duplicate message iff two of its rows are equal, and the success message iff
\* neither.
C4_ValidateReportsEachIssue ==
  (last.cmd = "validate" /\ last.err = "") =>
    /\ ("Null values found" \in Range(last.echo)) <=> HasNull(last.dfIn)
    /\ ("Duplicate rows found" \in Range(last.echo)) <=> HasDuplicate(last.dfIn)
    /\ ("Data passed validation" \in Range(last.echo)) <=>
         (~HasNull(last.dfIn) /\ ~HasDuplicate(last.dfIn))

\* validate ran on a dataset with a null and a duplicate row, and said both.
C4_Witness ==
  /\ last.cmd = "validate" /\ last.err = ""
  /\ HasNull(last.dfIn) /\ HasDuplicate(last.dfIn)
  /\ Len(last.echo) = 3

\* C5: when extract ends, a connection it acquired has been closed.
C5_ConnectionReleased == last.cmd = "extract" => conn \in {"none", "closed"}

\* The rows transform must retain: drop columns, then drop rows with a null in
\* a remaining column, then keep the rows of the department.
RetainedLabels ==
  LET src == last.dfIn
      kept == {j \in 1..Len(src.cols) : src.cols[j] \notin Range(last.drop_cols)}
      nullLeft(i) == \E j \in kept : src.rows[i][j] = NaN
      passes(i) == \/ ~Truthy(last.filter_dept)
                   \/ \E j \in kept : /\ src.cols[j] = c_department
                                      /\ src.rows[i][j] = VStr(last.filter_dept.value)
  IN  {src.index[i] : i \in {i \in 1..Len(src.rows) :
                              (last.drop_null => ~nullLeft(i)) /\ passes(i)}}

\* C6: the filters apply in the order drop columns, drop null rows, department
\* filter: the frame written holds exactly the rows that have, under
\* --drop-null, no null in a column left after the drop, and that pass the
\* department filter; so a row with a null in a remaining column is gone
\* whether or not its department passes.
C6_FilterOrder ==
  TransformDone => Range(last.dfOut.index) = RetainedLabels

\* A transform with --drop-null and --filter-dept Eng removed an Eng row for
\* its null salary, and one with --drop-cols salary kept a row whose only null
\* was its salary.
C6_Witness ==
  /\ TransformDone /\ last.drop_null
  /\ \E i \in 1..Len(last.dfIn.rows) :
       /\ NaN \in Range(last.dfIn.rows[i])
       /\ \/ /\ last.filter_dept = Some(Eng)
             /\ VStr(Eng) \in Range(last.dfIn.rows[i])
             /\ last.dfIn.index[i] \notin Range(last.dfOut.index)
          \/ /\ last.drop_cols # <<>>
             /\ last.dfIn.index[i] \in Range(last.dfOut.index)

\* C7: a load that finds no transformed_sql.csv fails with FileNotFoundError
\* and leaves every file, the target included, as it was.
C7_LoadWithoutInputFails ==
  (last.cmd = "load" /\ ~last.before[TRANSFORMED].exists) =>
    (last.err = "FileNotFoundError" /\ files = last.before)

\* load ran with no transformed_sql.csv, as the first command, and there is no
\* target file.
C7_Witness ==
  /\ last.cmd = "load" /\ ~last.before[TRANSFORMED].exists
  /\ ncmd = 1 /\ ~files[last.path].exists

SameRequest(a, b) ==
  /\ a.input = b.input /\ a.drop_null = b.drop_null
  /\ a.drop_cols = b.drop_cols /\ a.filter_dept = b.filter_dept

\* C8: two transform runs with the same input text and the same flags write the
\* same text, whatever transformed_sql.csv held before each.
C8_SameInputSameOutput ==
  \A i, j \in 1..Len(runs) : SameRequest(runs[i], runs[j]) => runs[i].output = runs[j].output

\* Two runs with the same input and flags, over different prior contents.
C8_Witness ==
  \E i, j \in 1..Len(runs) : SameRequest(runs[i], runs[j]) /\ runs[i].prior # runs[j].prior

BothWrote == \A p \in Procs : pc[p] = "done"
LastWriter == log[Len(log)].p

\* C9: when two concurrent transforms have both written, the file holds the
\* complete output of the one whose write ended last.
C9_LastWriterWins == BothWrote => files[TRANSFORMED].text = buf[LastWriter]

\* The other process neither opened nor wrote the file between the last
\* writer's open and its write.
Undisturbed == log[Len(log) - 1] = [p |-> LastWriter, op |-> "open"]

\* C9, amended: the file holds the complete output of the one whose write ended
\* last when the other did not touch the file between that one's open and its
\* write.
C9_LastWriterWinsUndisturbed ==
  (BothWrote /\ Undisturbed) => files[TRANSFORMED].text = buf[LastWriter]

\* The last writer wrote undisturbed, after the other had written a longer text.
C9_Witness ==
  /\ BothWrote /\ Undisturbed
  /\ \E q \in Procs \ {LastWriter} : Len(buf[q]) > Len(buf[LastWriter])
  /\ files[TRANSFORMED].text = buf[LastWriter]

\* The positions in the input header of the columns transform leaves.
KeptPositions ==
  LET h == HeaderTexts(InputFile)
  IN  SelectIdx([j \in 1..Len(h) |-> h[j] \notin Range(last.drop_cols)], 1, Len(h))

ProjectedInput ==
  LET r == RecordTexts(InputFile)
  IN  [i \in 1..Len(r) |-> [c \in 1..Len(KeptPositions) |-> r[i][KeptPositions[c]]]]

NoOptions == ~last.drop_null /\ last.drop_cols = <<>> /\ ~last.filter_dept.given

\* C10: the records of transformed_sql.csv are, in order, records of the input
\* cut to the remaining columns, cell for cell; and with no option the output
\* holds the input's records.
C10_RecordsUnaltered ==
  TransformDone =>
    /\ IsSubsequence(RecordTexts(files[TRANSFORMED]), ProjectedInput)
    /\ NoOptions => RecordTexts(files[TRANSFORMED]) = RecordTexts(InputFile)

=============================================================================
